---- MODULE Spec2Model ----
(***************************************************************************)
(* Order placement, editing and cancellation with stock reconciliation of  *)
(* the canteen backend (server.py): the handlers place_order, update_order *)
(* and delete_order against the tables menu_items and orders, the payment  *)
(* handlers, and the handlers of the users table.                          *)
(*                                                                         *)
(* Spec      : requests are served one after the other; every handler is   *)
(*             one action, followed by the delivery of its response.       *)
(* ConcSpec  : two requests are served at the same time, each on its own   *)
(*             connection (one transaction, READ COMMITTED); every SQL     *)
(*             statement of a handler is one step.                         *)
(* FaultSpec : requests served one after the other, with deleted menu      *)
(*             items, statements the database rejects, a missing payment   *)
(*             column, and orders written by other clients.                *)
(* FieldSpec : a placement and edits of every subset of the order fields.  *)
(* LedgerSpec: the requests of Spec with a ledger of the stock at the      *)
(*             start and of the deductions clamped at zero.                *)
(* PaySpec   : placements with payment fields, process_payment,            *)
(*             payment_callback and check_payment_status.                  *)
(* UserSpec  : register, approve_user and reset_all_users, with orders of  *)
(*             the registered users.                                       *)
(* RegSpec   : two registrations at the same time, every SQL statement of  *)
(*             register one step.                                          *)
(***************************************************************************)
EXTENDS Integers, Sequences, FiniteSets, TLC

(* ------------------------------ bounds --------------------------------- *)

\* Orders placed in one run of Spec; requests name the ids 1..MaxOrders.
MaxOrders == 1

\* Ids of the menu_items rows of the model.
Items == {1, 2}

\* Stock levels of the menu items before the first request.
InitQtys == {0, 1, 3}

\* user_id of the requests: PlaceUsers place the orders, Users send edits
\* and cancellations, as does NoUser, a request without user_id (None).
PlaceUsers == {1}
Users == {1, 2}
NoUser == 0

\* A line item id that is missing or falsy (item.get("id") is None or 0).
NoId == 0

\* A line item id whose SELECT fails on the server (a value that is no
\* integer, such as "abc"): the statement raises and the transaction is
\* aborted.
BadId == -1

\* A line item id that cursor.execute cannot adapt (a JSON object): the call
\* raises before a statement is sent, and the transaction goes on.
DictId == -2

\* The id field of an element of an items payload that is no line item (a
\* JSON number or string): item.get raises.
Junk == -3

Statuses == {"Pending", "Preparing"}

\* The connections of ConcSpec, one request each.
Procs == {1, 2}

\* ConcSpec: stock levels before the requests, and the items payloads.
ConcQtys == {4, 10}
ConcPayloads == { <<[id |-> 1, qty |-> 6]>>,
                  <<[id |-> 1, qty |-> 2], [id |-> 2, qty |-> 1]>> }

\* FaultSpec: stock levels before the requests; the items payloads of the
\* requests (two line items, twice; a line item whose SELECT fails between two
\* others; a line item that cannot be sent between two others; an element
\* that is no line item); and the items of orders written by other clients
\* of the database (a payload that cannot be read at all, a payload with an
\* element that is no line item between two line items, and one with such an
\* element after a line item whose SELECT fails).
FaultQtys == {0, 2}
FaultPayloads ==
    { <<[id |-> 1, qty |-> 1], [id |-> 2, qty |-> 3]>>,
      <<[id |-> 1, qty |-> 2], [id |-> 2, qty |-> 1]>>,
      <<[id |-> 1, qty |-> 1], [id |-> BadId, qty |-> 1], [id |-> 2, qty |-> 1]>>,
      <<[id |-> 1, qty |-> 1], [id |-> DictId, qty |-> 1], [id |-> 2, qty |-> 1]>>,
      <<[id |-> 1, qty |-> 1], [id |-> Junk, qty |-> 0]>> }
LegacyPayloads ==
    { <<[id |-> Junk, qty |-> 0]>>,
      <<[id |-> 1, qty |-> 2], [id |-> Junk, qty |-> 0], [id |-> 2, qty |-> 1]>>,
      <<[id |-> 1, qty |-> 2], [id |-> BadId, qty |-> 1], [id |-> Junk, qty |-> 0]>> }

\* FieldSpec: stock level and items payloads of the placement and the edits.
FieldQtys == {3}
FieldPlaced == <<[id |-> 1, qty |-> 1]>>
FieldEdited == <<[id |-> 2, qty |-> 1]>>

\* fullname as submitted on placement and as changed by an edit.
PlaceNames == {"n1"}
EditNames == {"n2"}

L(i, q) == [id |-> i, qty |-> q]

\* The items payloads of the requests: empty, one line, two lines on one
\* menu item around a line with qty <= 0, and lines on two menu items around
\* a line without id.
Payloads ==
    { <<>>,
      <<L(1, 1)>>,
      <<L(1, 2), L(1, -1), L(1, 1)>>,
      <<L(1, 2), L(NoId, 1), L(2, 1)>> }

\* UserSpec and RegSpec: the number of accounts registered in a run, the
\* emails they register with, and the roles an approval may name.
MaxUsers == 2
Emails == {"e1", "e2"}
Roles == {"admin", "guest"}

\* PaySpec: the payment fields a placement may carry, the methods of
\* process_payment, the payment intents and statuses the gateway may answer
\* with, and the statuses of a webhook.
PlaceMethods == {"gcash"}
PlaceStatuses == {"paid", "refunded"}
PayMethods == {"card", "gcash", "paypal"}
Intents == {1}
GatewayStatuses == {"pending", "paid"}
WebhookStatuses == {"succeeded", "failed", "processing"}

\* An optional request field: <<>> when the key is absent, <<v>> when present.
Opt(S) == {<<>>} \cup {<<v>> : v \in S}
Has(f) == f # <<>>
Val(f) == f[1]

(* ------------------------------- state --------------------------------- *)

VARIABLES
    menu,       \* menu_items: id -> row (present, quantity, is_available)
    orders,     \* orders: sequence of rows by id; a deleted row is NoOrder
    leftPending,\* history: order ids whose status has been non-Pending
    placed,     \* history: the order placed by the previous request, if any
    last,       \* history: the last request, its result and the state before it
    proc,       \* ConcSpec: the request each connection serves and its progress
    begin,      \* ConcSpec, history: the tables before the concurrent requests
    payCols,    \* the orders table has the payment columns place_order adds
    users,      \* users: sequence of rows by id; a deleted row is NoUserRow
    ledger      \* history: the stock at the start, and whether a deduction
                \* has been clamped at zero since

vars == <<menu, orders, leftPending, placed, last, proc, begin, payCols,
          users, ledger>>

NoRow == [present |-> FALSE, quantity |-> 0, is_available |-> FALSE]
MenuRow(q, a) == [present |-> TRUE, quantity |-> q, is_available |-> a]

\* payment_intent_id IS NULL.
NoIntent == 0

NoOrder == [present |-> FALSE]

NoUserRow == [present |-> FALSE]
UserRow(email, role, is_approved, id_proof, selfie_proof) ==
    [present |-> TRUE, email |-> email, role |-> role,
     is_approved |-> is_approved, id_proof |-> id_proof,
     selfie_proof |-> selfie_proof]
OrderRow(u, n, its, st) ==
    [present |-> TRUE, user_id |-> u, fullname |-> n, contact |-> "c1",
     location |-> "l1", items |-> its, total |-> 10,
     status |-> st, payment_method |-> "cash", payment_status |-> "pending",
     payment_intent_id |-> NoIntent]

OrderIds == 1..MaxOrders

Exists(os, o) == o \in DOMAIN os /\ os[o].present

Max(a, b) == IF a >= b THEN a ELSE b

(* ----------------------- stock adjustment steps ------------------------ *)

\* Mutant of Effective: a line item with a truthy id is acted on whatever
\* its qty.
EffectiveAnyQty(item) == item.id # NoId

\* A line item the handlers act on: truthy id and qty > 0.
Effective(item) == item.id # NoId /\ item.qty > 0

\* The row of menu item id in table m, NoRow when there is none.
RowOf(m, id) == IF id \in DOMAIN m THEN m[id] ELSE NoRow

\* Mutant of DeductedRow: the deduction is not clamped at zero.
DeductedRowNoClamp(row, current_qty, qty) ==
    LET new_qty == current_qty - qty
    IN [row EXCEPT !.quantity = new_qty,
                   !.is_available = IF new_qty = 0 THEN FALSE ELSE @]

\* The two UPDATEs of a deduction: quantity = max(0, current_qty - qty), and
\* is_available = FALSE when the new quantity is 0.
DeductedRow(row, current_qty, qty) ==
    LET new_qty == Max(0, current_qty - qty)
    IN [row EXCEPT !.quantity = new_qty,
                   !.is_available = IF new_qty = 0 THEN FALSE ELSE @]

\* Mutant of RestoredRow: every restoration marks the item available.
RestoredRowAlwaysAvailable(row, current_qty, qty) ==
    [row EXCEPT !.quantity = current_qty + qty, !.is_available = TRUE]

\* The two UPDATEs of a restoration: quantity = current_qty + qty, and
\* is_available = TRUE when the stock was 0.
RestoredRow(row, current_qty, qty) ==
    LET new_qty == current_qty + qty
    IN [row EXCEPT !.quantity = new_qty,
                   !.is_available =
                       IF current_qty = 0 /\ new_qty > 0 THEN TRUE ELSE @]

\* Mutant of PlaceDeduct: a line item whose menu row is missing gets a row.
PlaceDeductInsertsMissing(m, item) ==
    IF Effective(item) /\ item.id \in DOMAIN m /\ ~m[item.id].present
    THEN [m EXCEPT ![item.id] = MenuRow(0, FALSE)]
    ELSE IF Effective(item) /\ RowOf(m, item.id).present
    THEN [m EXCEPT ![item.id] = DeductedRow(@, @.quantity, item.qty)]
    ELSE m

\* Mutant of PlaceDeduct: the line item is deducted twice.
PlaceDeductTwice(m, item) ==
    IF Effective(item) /\ RowOf(m, item.id).present
    THEN LET once == DeductedRow(m[item.id], m[item.id].quantity, item.qty)
         IN [m EXCEPT ![item.id] = DeductedRow(once, once.quantity, item.qty)]
    ELSE m

\* place_order, one line item: skipped without id or with qty <= 0, and when
\* the SELECT finds no row; else deducted.
PlaceDeduct(m, item) ==
    IF Effective(item) /\ RowOf(m, item.id).present
    THEN [m EXCEPT ![item.id] = DeductedRow(@, @.quantity, item.qty)]
    ELSE m

\* Mutant of EditRestore: the old line item is not restored.
EditRestoreSkipped(m, item) == m

\* update_order, one old line item: restored under the same conditions.
EditRestore(m, item) ==
    IF Effective(item) /\ RowOf(m, item.id).present
    THEN [m EXCEPT ![item.id] = RestoredRow(@, @.quantity, item.qty)]
    ELSE m

\* Mutant of EditDeduct: the new line items are not deducted.
EditDeductNothing(m, item) == m

\* update_order, one new line item: as in place_order.
EditDeduct(m, item) ==
    IF Effective(item) /\ RowOf(m, item.id).present
    THEN [m EXCEPT ![item.id] = DeductedRow(@, @.quantity, item.qty)]
    ELSE m

\* Mutant of CancelRestore: a line item whose menu row is missing gets a row
\* that holds its quantity.
CancelRestoreInsertsMissing(m, item) ==
    IF Effective(item) /\ item.id \in DOMAIN m /\ ~m[item.id].present
    THEN [m EXCEPT ![item.id] = MenuRow(item.qty, TRUE)]
    ELSE IF Effective(item) /\ RowOf(m, item.id).present
    THEN [m EXCEPT ![item.id] = RestoredRow(@, @.quantity, item.qty)]
    ELSE m

\* Mutant of CancelRestore: an item whose stock is 0 is taken for a missing
\* row and is not restored.
CancelRestoreUnlessEmpty(m, item) ==
    IF Effective(item) /\ RowOf(m, item.id).present /\ m[item.id].quantity # 0
    THEN [m EXCEPT ![item.id] = RestoredRow(@, @.quantity, item.qty)]
    ELSE m

\* delete_order, one stored line item: as the restoration of update_order.
CancelRestore(m, item) ==
    IF Effective(item) /\ RowOf(m, item.id).present
    THEN [m EXCEPT ![item.id] = RestoredRow(@, @.quantity, item.qty)]
    ELSE m

\* An items payload with an element that is no line item: the loop over it
\* raises when it reaches the element.
Raises(its) == \E k \in 1..Len(its) : its[k].id = Junk

\* Mutant of Readable: an element that is no line item is skipped and the
\* loop goes on.
RECURSIVE ReadableSkipping(_)
ReadableSkipping(its) ==
    IF its = <<>> THEN <<>>
    ELSE IF Head(its).id = Junk THEN ReadableSkipping(Tail(its))
    ELSE <<Head(its)>> \o ReadableSkipping(Tail(its))

\* The line items of its that a loop reaches before it raises.
RECURSIVE Readable(_)
Readable(its) ==
    IF its = <<>> \/ Head(its).id = Junk THEN <<>>
    ELSE <<Head(its)>> \o Readable(Tail(its))

\* A SELECT of the loop over its fails on the server. The handler catches
\* the exception, but the transaction is aborted: every later statement of
\* the request fails as well.
Aborts(its) == \E k \in 1..Len(its) : Effective(its[k]) /\ its[k].id = BadId

\* The for loops over the line items, first to last.
\* Mutant of PlaceDeductAll: of the line items on one menu item only the
\* first is applied.
RECURSIVE PlaceDeductAllOnce(_, _)
PlaceDeductAllOnce(m, its) ==
    IF its = <<>> THEN m
    ELSE PlaceDeductAllOnce(PlaceDeduct(m, Head(its)),
                            SelectSeq(Tail(its), LAMBDA x : x.id # Head(its).id))

RECURSIVE PlaceDeductAll(_, _)
PlaceDeductAll(m, its) ==
    IF its = <<>> THEN m ELSE PlaceDeductAll(PlaceDeduct(m, Head(its)), Tail(its))

RECURSIVE EditRestoreAll(_, _)
EditRestoreAll(m, its) ==
    IF its = <<>> THEN m ELSE EditRestoreAll(EditRestore(m, Head(its)), Tail(its))

RECURSIVE EditDeductAll(_, _)
EditDeductAll(m, its) ==
    IF its = <<>> THEN m ELSE EditDeductAll(EditDeduct(m, Head(its)), Tail(its))

RECURSIVE CancelRestoreAll(_, _)
CancelRestoreAll(m, its) ==
    IF its = <<>> THEN m ELSE CancelRestoreAll(CancelRestore(m, Head(its)), Tail(its))

(* ------------------------- handlers as functions ----------------------- *)

\* The payment part of a request: the optional payment_method, payment_status
\* (the status of a webhook) and payment_intent_id, whether the card or GCash
\* details pass the format checks, and what the payment gateway answers.
NoGateway == [kind |-> "none", status |-> <<>>, payment_intent_id |-> <<>>,
              paid |-> FALSE]
NoPay == [payment_method |-> <<>>, payment_status |-> <<>>,
          payment_intent_id |-> <<>>, details_ok |-> TRUE,
          gateway |-> NoGateway]

\* The account part of a request: the email and the proofs of a registration,
\* is_approved and role of an approval.
NoAccount == [email |-> <<>>, id_proof |-> <<>>, selfie_proof |-> <<>>,
              is_approved |-> <<>>, role |-> <<>>]

\* A request: the JSON body and the path parameter.
PlaceReq(u, n, its) == [op |-> "place", oid |-> 0, user_id |-> u,
                        fullname |-> <<n>>, contact |-> <<"c1">>,
                        location |-> <<"l1">>, items |-> <<its>>,
                        total |-> <<10>>, status |-> <<>>,
                        insert_fails |-> FALSE, pay |-> NoPay,
                        account |-> NoAccount]
EditReq(o, u, n, its, st) == [op |-> "edit", oid |-> o, user_id |-> u,
                              fullname |-> n, contact |-> <<>>,
                              location |-> <<>>, items |-> its,
                              total |-> <<>>, status |-> st,
                              insert_fails |-> FALSE, pay |-> NoPay,
                              account |-> NoAccount]
CancelReq(o, u) == [op |-> "cancel", oid |-> o, user_id |-> u,
                    fullname |-> <<>>, contact |-> <<>>, location |-> <<>>,
                    items |-> <<>>, total |-> <<>>, status |-> <<>>,
                    insert_fails |-> FALSE, pay |-> NoPay,
                    account |-> NoAccount]

\* A request of place_order with payment_method and payment_status, each
\* present or absent.
PlaceReqPay(u, n, its, pm, ps) ==
    [PlaceReq(u, n, its) EXCEPT !.pay.payment_method = pm,
                                !.pay.payment_status = ps]

\* A request of place_order whose INSERT the database rejects (a total or a
\* user_id of the wrong type, a constraint, a lost connection).
PlaceReqRejected(u, n, its) == [PlaceReq(u, n, its) EXCEPT !.insert_fails = TRUE]

\* A request of delete_menu_item.
MenuReq(i) == [CancelReq(i, NoUser) EXCEPT !.op = "delete_menu_item"]

\* A request of update_order with contact, location and total as well.
EditReqAll(o, u, n, c, l, its, t, st) ==
    [EditReq(o, u, n, its, st) EXCEPT !.contact = c, !.location = l, !.total = t]

\* The outcome of a handler: result code and the tables after it.
Outcome(res, m, os) == [res |-> res, menu |-> m, orders |-> os]

\* Mutant of Closed: closing the connection keeps the uncommitted writes.
ClosedKeepsWrites(committed, written) == written

\* conn.close() without conn.commit(): the writes of the open transaction
\* are discarded, the committed rows stay.
Closed(committed, written) == committed

\* Mutant of PlacedRow: the payment fields of the request are stored as they
\* are, an absent one as the empty string.
PlacedRowNoDefaults(req) ==
    [OrderRow(req.user_id, Val(req.fullname), Val(req.items), "Pending") EXCEPT
        !.payment_method = IF Has(req.pay.payment_method)
                           THEN Val(req.pay.payment_method) ELSE "",
        !.payment_status = IF Has(req.pay.payment_status)
                           THEN Val(req.pay.payment_status) ELSE ""]

\* The row place_order inserts: payment_method and payment_status of the
\* request, "cash" and "pending" when absent; the INSERT names neither the
\* status nor the payment_intent_id.
PlacedRow(req) ==
    [OrderRow(req.user_id, Val(req.fullname), Val(req.items), "Pending") EXCEPT
        !.payment_method = IF Has(req.pay.payment_method)
                           THEN Val(req.pay.payment_method) ELSE "cash",
        !.payment_status = IF Has(req.pay.payment_status)
                           THEN Val(req.pay.payment_status) ELSE "pending"]

\* place_order: deduct every line item, then INSERT the order and commit.
\* When a payment column is missing the handler adds it and commits, which
\* commits the deductions, before the INSERT. A loop that raises, an aborted
\* transaction and a rejected INSERT end in HTTP 500 and conn.close().
PlaceOrder(m, os, req) ==
    LET its == Val(req.items)
        deducted == PlaceDeductAll(m, its)
    IN
    IF Raises(its) \/ Aborts(its)
    THEN Outcome("StorageFailure", Closed(m, PlaceDeductAll(m, Readable(its))), os)
    ELSE IF req.insert_fails
    THEN Outcome("StorageFailure",
                 Closed(IF payCols THEN m ELSE deducted, deducted), os)
    ELSE Outcome("ok", deducted, Append(os, PlacedRow(req)))

\* delete_menu_item.
DeleteMenuItem(m, os, req) ==
    IF ~RowOf(m, req.oid).present THEN Outcome("NotFound", m, os)
    ELSE Outcome("ok", [m EXCEPT ![req.oid] = NoRow], os)

\* Mutant of OwnerOk: the owner of the order is not checked.
OwnerOkAlways(order, req) == TRUE

\* update_order and delete_order: the ownership check.
OwnerOk(order, req) == req.user_id = NoUser \/ order.user_id = req.user_id

\* Mutant of EditAllowed: the status is not checked.
EditAllowedAlways(order) == TRUE

\* update_order: details may be edited only while the order is Pending.
EditAllowed(order) == order.status = "Pending"

\* Mutant of CancelAllowed: the status is not checked.
CancelAllowedAlways(order) == TRUE

\* delete_order: only a Pending order is cancelled.
CancelAllowed(order) == order.status = "Pending"

\* Mutant of EditStock: the new items are deducted before the old ones are
\* restored.
EditStockDeductFirst(m, old_items, new_items) ==
    EditRestoreAll(EditDeductAll(m, new_items), old_items)

\* update_order with items: restore the old items, then deduct the new ones.
EditStock(m, old_items, new_items) ==
    EditDeductAll(EditRestoreAll(m, old_items), new_items)

\* Mutant of UpdatedRow: the UPDATE sets every column, a column whose field
\* is absent from the request to its default.
UpdatedRowAllColumns(order, req) ==
    [order EXCEPT
        !.fullname = IF Has(req.fullname) THEN Val(req.fullname) ELSE "",
        !.contact = IF Has(req.contact) THEN Val(req.contact) ELSE "",
        !.location = IF Has(req.location) THEN Val(req.location) ELSE "",
        !.items = IF Has(req.items) THEN Val(req.items) ELSE <<>>,
        !.total = IF Has(req.total) THEN Val(req.total) ELSE 0,
        !.status = IF Has(req.status) THEN Val(req.status) ELSE "Pending"]

\* The partial UPDATE of update_order: the fields present in the request.
UpdatedRow(order, req) ==
    LET r1 == IF Has(req.fullname) THEN [order EXCEPT !.fullname = Val(req.fullname)]
              ELSE order
        r2 == IF Has(req.contact) THEN [r1 EXCEPT !.contact = Val(req.contact)]
              ELSE r1
        r3 == IF Has(req.location) THEN [r2 EXCEPT !.location = Val(req.location)]
              ELSE r2
        r4 == IF Has(req.items) THEN [r3 EXCEPT !.items = Val(req.items)] ELSE r3
        r5 == IF Has(req.total) THEN [r4 EXCEPT !.total = Val(req.total)] ELSE r4
    IN IF Has(req.status) THEN [r5 EXCEPT !.status = Val(req.status)] ELSE r5

\* Mutant of StatusRow: the status-only UPDATE also empties the items.
StatusRowClearsItems(order, req) ==
    [order EXCEPT !.status = Val(req.status), !.items = <<>>]

\* The status-only UPDATE of update_order.
StatusRow(order, req) == [order EXCEPT !.status = Val(req.status)]

\* Mutant of Details: every request counts as carrying order details.
DetailsAlways(req) == TRUE

\* A request of update_order that carries order details, not only a status.
Details(req) ==
    \/ Has(req.fullname)
    \/ Has(req.contact)
    \/ Has(req.location)
    \/ Has(req.items)
    \/ Has(req.total)

\* update_order.
UpdateOrder(m, os, req) ==
    IF ~Exists(os, req.oid) THEN Outcome("NotFound", m, os)
    ELSE
    LET order == os[req.oid]
    IN
    IF ~OwnerOk(order, req) THEN Outcome("Forbidden", m, os)
    ELSE IF Details(req) /\ ~EditAllowed(order) THEN Outcome("NotPending", m, os)
    ELSE IF Has(req.items)
            /\ (\/ Raises(Val(req.items))
                \/ Aborts(Readable(order.items))
                \/ Aborts(Val(req.items)))
    THEN Outcome("StorageFailure", Closed(m, m), os)
    ELSE IF Details(req)
    THEN Outcome("ok",
                 IF Has(req.items)
                 THEN EditStock(m, Readable(order.items), Val(req.items))
                 ELSE m,
                 [os EXCEPT ![req.oid] = UpdatedRow(order, req)])
    ELSE IF Has(req.status)
    THEN Outcome("ok", m, [os EXCEPT ![req.oid] = StatusRow(order, req)])
    ELSE Outcome("NoFields", m, os)

\* Mutant of DeleteOrder: the owner is checked before the status.
DeleteOrderOwnerFirst(m, os, req) ==
    IF ~Exists(os, req.oid) THEN Outcome("NotFound", m, os)
    ELSE
    LET order == os[req.oid]
    IN
    IF ~OwnerOk(order, req) THEN Outcome("Forbidden", m, os)
    ELSE IF ~CancelAllowed(order) THEN Outcome("NotPending", m, os)
    ELSE IF Aborts(Readable(order.items))
    THEN Outcome("StorageFailure", Closed(m, m), os)
    ELSE Outcome("ok", CancelRestoreAll(m, Readable(order.items)),
                 [os EXCEPT ![req.oid] = NoOrder])

\* delete_order.
DeleteOrder(m, os, req) ==
    IF ~Exists(os, req.oid) THEN Outcome("NotFound", m, os)
    ELSE
    LET order == os[req.oid]
    IN
    IF ~CancelAllowed(order) THEN Outcome("NotPending", m, os)
    ELSE IF ~OwnerOk(order, req) THEN Outcome("Forbidden", m, os)
    ELSE IF Aborts(Readable(order.items))
    THEN Outcome("StorageFailure", Closed(m, m), os)
    ELSE Outcome("ok", CancelRestoreAll(m, Readable(order.items)),
                 [os EXCEPT ![req.oid] = NoOrder])

\* A request of process_payment: the order, the payment_method, whether the
\* payment_details pass the format checks, the answer of the gateway.
ProcessReq(o, method, details_ok, gw) ==
    [CancelReq(o, NoUser) EXCEPT
        !.op = "process_payment",
        !.pay = [NoPay EXCEPT !.payment_method = method,
                              !.details_ok = details_ok,
                              !.gateway = gw]]

\* A request of payment_callback: the payment intent and status of the event.
CallbackReq(intent, status) ==
    [CancelReq(0, NoUser) EXCEPT
        !.op = "payment_callback",
        !.pay = [NoPay EXCEPT !.payment_intent_id = intent,
                              !.payment_status = status]]

\* A request of check_payment_status: the payment intent of the path, the
\* answer of the gateway.
StatusReq(intent, gw) ==
    [CancelReq(0, NoUser) EXCEPT
        !.op = "check_payment_status",
        !.pay = [NoPay EXCEPT !.payment_intent_id = <<intent>>,
                              !.gateway = gw]]

\* What process_gcash_payment may do: return a result with or without a
\* status and a payment_intent_id, raise because the gateway is not
\* configured, raise otherwise.
GcashAnswers ==
    {[NoGateway EXCEPT !.kind = "result", !.status = st,
                       !.payment_intent_id = pi] :
        st \in Opt(GatewayStatuses), pi \in Opt(Intents)}
    \cup {[NoGateway EXCEPT !.kind = k] : k \in {"not_configured", "error"}}

\* What check_payment_status_paymongo may do: return a status that is paid
\* or not, raise.
StatusAnswers ==
    {[NoGateway EXCEPT !.kind = "result", !.paid = b] : b \in BOOLEAN}
    \cup {[NoGateway EXCEPT !.kind = "error"]}

\* The UPDATE of process_payment after process_gcash_payment has returned.
GcashRow(order, req) ==
    LET gw == req.pay.gateway
        r == [order EXCEPT
                 !.payment_status = IF Has(gw.status) THEN Val(gw.status)
                                    ELSE "pending",
                 !.payment_method = Val(req.pay.payment_method)]
    IN IF Has(gw.payment_intent_id)
       THEN [r EXCEPT !.payment_intent_id = Val(gw.payment_intent_id)]
       ELSE r

\* process_payment.
ProcessPayment(m, os, req) ==
    IF req.oid = 0 \/ ~Has(req.pay.payment_method)
    THEN Outcome("BadRequest", m, os)
    ELSE IF ~Exists(os, req.oid) THEN Outcome("NotFound", m, os)
    ELSE
    LET order == os[req.oid]
        method == Val(req.pay.payment_method)
        gw == req.pay.gateway
    IN
    IF order.payment_status = "paid" THEN Outcome("ok", m, os)
    ELSE IF method = "card"
    THEN IF ~req.pay.details_ok THEN Outcome("BadRequest", m, os)
         ELSE Outcome("ok", m,
                      [os EXCEPT ![req.oid] =
                          [order EXCEPT !.payment_status = "paid",
                                        !.payment_method = method]])
    ELSE IF method = "gcash"
    THEN IF ~req.pay.details_ok THEN Outcome("BadRequest", m, os)
         ELSE IF gw.kind = "result"
         THEN Outcome("ok", m, [os EXCEPT ![req.oid] = GcashRow(order, req)])
         ELSE IF gw.kind = "not_configured"
         THEN Outcome("ok", m,
                      [os EXCEPT ![req.oid] =
                          [order EXCEPT !.payment_status = "pending",
                                        !.payment_method = method]])
         ELSE Outcome("StorageFailure", m, os)
    ELSE Outcome("BadRequest", m, os)

\* The orders whose payment_intent_id is intent.
Matching(os, intent) ==
    {o \in DOMAIN os : os[o].present /\ os[o].payment_intent_id = intent}

\* payment_callback; o is the order its SELECT fetches, 0 when there is none.
PaymentCallback(m, os, req, o) ==
    IF ~Has(req.pay.payment_intent_id) THEN Outcome("MissingIntent", m, os)
    ELSE IF o = 0 THEN Outcome("ok", m, os)
    ELSE
    LET status == req.pay.payment_status
        current_status == os[o].payment_status
    IN
    IF status = <<"succeeded">> /\ current_status # "paid"
    THEN Outcome("ok", m, [os EXCEPT ![o].payment_status = "paid"])
    ELSE IF status = <<"failed">> /\ current_status # "failed"
    THEN Outcome("ok", m, [os EXCEPT ![o].payment_status = "failed"])
    ELSE Outcome("ok", m, os)

\* check_payment_status.
CheckPaymentStatus(m, os, req) ==
    LET gw == req.pay.gateway
        intent == Val(req.pay.payment_intent_id)
    IN
    IF gw.kind # "result" THEN Outcome("StorageFailure", m, os)
    ELSE IF gw.paid
    THEN Outcome("ok", m,
                 [o \in DOMAIN os |->
                     IF o \in Matching(os, intent) /\ os[o].payment_status # "paid"
                     THEN [os[o] EXCEPT !.payment_status = "paid"]
                     ELSE os[o]])
    ELSE Outcome("ok", m, os)

\* A request of register: the email and the two proofs, each proof present
\* or absent.
RegisterReq(email, id_proof, selfie_proof) ==
    [CancelReq(0, NoUser) EXCEPT
        !.op = "register",
        !.account = [NoAccount EXCEPT !.email = <<email>>,
                                      !.id_proof = id_proof,
                                      !.selfie_proof = selfie_proof]]

\* A request of approve_user: the user of the path, is_approved and role.
ApproveReq(user_id, is_approved, role) ==
    [CancelReq(0, NoUser) EXCEPT
        !.op = "approve_user",
        !.user_id = user_id,
        !.account = [NoAccount EXCEPT !.is_approved = is_approved,
                                      !.role = role]]

\* A request of reset_all_users.
ResetReq == [CancelReq(0, NoUser) EXCEPT !.op = "reset_all_users"]

\* The outcome of a handler that writes the users table as well.
UserOutcome(res, m, os, us) ==
    [res |-> res, menu |-> m, orders |-> os, users |-> us]

\* register: SELECT 1 FROM users WHERE email = %s finds a row.
EmailTaken(us, email) ==
    \E u \in DOMAIN us : us[u].present /\ us[u].email = email

\* register: SELECT COUNT(*) FROM users.
UserCount(us) == Cardinality({u \in DOMAIN us : us[u].present})

\* register: a registration that is not the first needs both proofs.
ProofsMissing(req) ==
    req.account.id_proof = <<>> \/ req.account.selfie_proof = <<>>

\* register: the row of the INSERT, an approved admin when no user exists,
\* an unapproved user otherwise.
RegisteredRow(req, user_count) ==
    IF user_count = 0
    THEN UserRow(Val(req.account.email), "admin", TRUE,
                 req.account.id_proof, req.account.selfie_proof)
    ELSE UserRow(Val(req.account.email), "user", FALSE,
                 req.account.id_proof, req.account.selfie_proof)

\* register, served alone.
Register(m, os, us, req) ==
    IF EmailTaken(us, Val(req.account.email))
    THEN UserOutcome("BadRequest", m, os, us)
    ELSE IF UserCount(us) # 0 /\ ProofsMissing(req)
    THEN UserOutcome("BadRequest", m, os, us)
    ELSE UserOutcome("ok", m, os, Append(us, RegisteredRow(req, UserCount(us))))

\* approve_user: SELECT MIN(id) FROM users WHERE role = 'admin'.
FirstAdmin(us) ==
    LET admins == {u \in DOMAIN us : us[u].present /\ us[u].role = "admin"}
    IN IF admins = {} THEN 0
       ELSE CHOOSE u \in admins : \A v \in admins : u <= v

\* Mutant of OrdersWithout: the orders of the user stay.
OrdersKept(os, user_id) == os

\* approve_user: DELETE FROM orders WHERE user_id = %s.
OrdersWithout(os, user_id) ==
    [o \in DOMAIN os |->
        IF os[o].present /\ os[o].user_id = user_id THEN NoOrder ELSE os[o]]

\* approve_user: the UPDATE of an approval, is_approved when the request has
\* it and role when the request names admin or user.
ApprovedRow(user, req) ==
    LET r == IF Has(req.account.is_approved)
             THEN [user EXCEPT !.is_approved = Val(req.account.is_approved)]
             ELSE user
    IN IF Has(req.account.role) /\ Val(req.account.role) \in {"admin", "user"}
       THEN [r EXCEPT !.role = Val(req.account.role)]
       ELSE r

\* approve_user.
ApproveUser(m, os, us, req) ==
    IF ~(req.user_id \in DOMAIN us /\ us[req.user_id].present)
    THEN UserOutcome("NotFound", m, os, us)
    ELSE
    LET user == us[req.user_id]
    IN
    IF user.role = "admin" /\ req.user_id = FirstAdmin(us)
    THEN UserOutcome("BadRequest", m, os, us)
    ELSE IF ~Has(req.account.is_approved)
            /\ ~(Has(req.account.role)
                 /\ Val(req.account.role) \in {"admin", "user"})
    THEN UserOutcome("NoFields", m, os, us)
    ELSE IF req.account.is_approved = <<FALSE>>
    THEN UserOutcome("ok", m, OrdersWithout(os, req.user_id),
                     [us EXCEPT ![req.user_id] = NoUserRow])
    ELSE UserOutcome("ok", m, os,
                     [us EXCEPT ![req.user_id] = ApprovedRow(user, req)])

\* reset_all_users: DELETE FROM orders, DELETE FROM users.
ResetAllUsers(m, os, us, req) ==
    UserOutcome("ok", m, [o \in DOMAIN os |-> NoOrder],
                [u \in DOMAIN us |-> NoUserRow])

\* A deduction of the line items its from table m, one by one as place_order
\* and update_order make them, is clamped at zero.
RECURSIVE ClampedIn(_, _)
ClampedIn(m, its) ==
    IF its = <<>> THEN FALSE
    ELSE \/ /\ Effective(Head(its))
            /\ RowOf(m, Head(its).id).present
            /\ RowOf(m, Head(its).id).quantity < Head(its).qty
         \/ ClampedIn(PlaceDeduct(m, Head(its)), Tail(its))

\* A request that succeeds on tables m, os clamps one of its deductions.
Clamps(m, os, req, res) ==
    /\ res = "ok"
    /\ \/ req.op = "place" /\ ClampedIn(m, Val(req.items))
       \/ /\ req.op = "edit"
          /\ Has(req.items)
          /\ Exists(os, req.oid)
          /\ ClampedIn(EditRestoreAll(m, Readable(os[req.oid].items)),
                       Val(req.items))

(* ------------------------------ actions -------------------------------- *)

NoMenu == [i \in Items |-> NoRow]

\* No order was placed by the previous request.
NoPlaced == [oid |-> 0, menu |-> NoMenu]

\* No request is being answered.
NoLast == [req |-> CancelReq(0, NoUser), res |-> "none",
           menu |-> NoMenu, orders |-> <<>>, left |-> {}, placed |-> NoPlaced,
           cols |-> TRUE, users |-> <<>>]

\* A connection that serves no request.
IdleProc == [pc |-> "idle", req |-> CancelReq(0, NoUser), work |-> <<>>,
             cur |-> 0, wr |-> [i \in Items |-> <<>>],
             took |-> [i \in Items |-> 0], res |-> "none"]

NoBegin == [menu |-> NoMenu, orders |-> <<>>]

\* The ledger of a run that starts with the stock m.
LedgerOf(m) == [menu |-> m, clamped |-> FALSE]

\* No ledger is kept.
NoLedger == LedgerOf(NoMenu)

Init ==
    /\ menu \in [Items -> {MenuRow(q, TRUE) : q \in InitQtys}]
    /\ orders = <<>>
    /\ leftPending = {}
    /\ placed = NoPlaced
    /\ last = NoLast
    /\ proc = [p \in Procs |-> IdleProc]
    /\ begin = NoBegin
    /\ payCols = TRUE
    /\ users = <<>>
    /\ ledger = NoLedger

\* place_order has reached its checks of the payment columns with a
\* transaction that works: it adds the columns that are missing.
ColumnsAdded(req) ==
    /\ req.op = "place"
    /\ ~Raises(Val(req.items))
    /\ ~Aborts(Val(req.items))

\* Apply an outcome; keep the request, its result and the state before it.
Served(req, out) ==
    /\ last = NoLast
    /\ menu' = out.menu
    /\ orders' = out.orders
    /\ leftPending' = leftPending \cup
           {o \in DOMAIN out.orders :
                out.orders[o].present /\ out.orders[o].status # "Pending"}
    /\ placed' = IF req.op = "place" /\ out.res = "ok"
                 THEN [oid |-> Len(out.orders), menu |-> menu]
                 ELSE NoPlaced
    /\ last' = [req |-> req, res |-> out.res, menu |-> menu, orders |-> orders,
                left |-> leftPending, placed |-> placed, cols |-> payCols,
                users |-> users]
    /\ payCols' = (payCols \/ ColumnsAdded(req))
    /\ UNCHANGED <<proc, begin>>

Serve(req, out) == Served(req, out) /\ UNCHANGED <<ledger, users>>

PlaceOrderAct ==
    /\ Len(orders) < MaxOrders
    /\ \E u \in PlaceUsers, n \in PlaceNames, its \in Payloads :
          LET req == PlaceReq(u, n, its)
          IN Serve(req, PlaceOrder(menu, orders, req))

\* The fullname of an edit is the one given on placement; FieldSpec has the
\* edits that change it.
UpdateOrderAct ==
    \E o \in OrderIds, u \in Users \cup {NoUser},
       n \in Opt(PlaceNames), its \in Opt(Payloads), st \in Opt(Statuses) :
          LET req == EditReq(o, u, n, its, st)
          IN Serve(req, UpdateOrder(menu, orders, req))

DeleteOrderAct ==
    \E o \in OrderIds, u \in Users \cup {NoUser} :
          LET req == CancelReq(o, u)
          IN Serve(req, DeleteOrder(menu, orders, req))

\* The response has been sent; the next request can be served.
Respond ==
    /\ last # NoLast
    /\ last' = NoLast
    /\ UNCHANGED <<menu, orders, leftPending, placed, proc, begin, payCols,
                   users, ledger>>

Next ==
    \/ PlaceOrderAct
    \/ UpdateOrderAct
    \/ DeleteOrderAct
    \/ Respond

Spec == Init /\ [][Next]_vars

(* ------------- LedgerSpec: the serial requests with a ledger ----------- *)

LedgerInit ==
    /\ menu \in [Items -> {MenuRow(q, TRUE) : q \in InitQtys}]
    /\ orders = <<>>
    /\ leftPending = {}
    /\ placed = NoPlaced
    /\ last = NoLast
    /\ proc = [p \in Procs |-> IdleProc]
    /\ begin = NoBegin
    /\ payCols = TRUE
    /\ users = <<>>
    /\ ledger = LedgerOf(menu)

\* Apply an outcome and note in the ledger a deduction that was clamped.
LedgerServe(req, out) ==
    /\ Served(req, out)
    /\ ledger' = [ledger EXCEPT
                     !.clamped = @ \/ Clamps(menu, orders, req, out.res)]
    /\ UNCHANGED users

LedgerPlaceAct ==
    /\ Len(orders) < MaxOrders
    /\ \E u \in PlaceUsers, n \in PlaceNames, its \in Payloads :
          LET req == PlaceReq(u, n, its)
          IN LedgerServe(req, PlaceOrder(menu, orders, req))

LedgerEditAct ==
    \E o \in OrderIds, its \in Opt(Payloads), st \in Opt({"Preparing"}) :
          LET req == EditReq(o, NoUser, <<>>, its, st)
          IN LedgerServe(req, UpdateOrder(menu, orders, req))

LedgerCancelAct ==
    \E o \in OrderIds :
          LET req == CancelReq(o, NoUser)
          IN LedgerServe(req, DeleteOrder(menu, orders, req))

LedgerNext ==
    \/ LedgerPlaceAct
    \/ LedgerEditAct
    \/ LedgerCancelAct
    \/ Respond

LedgerSpec == LedgerInit /\ [][LedgerNext]_vars

(* -------------------- PaySpec: orders and payments --------------------- *)

PayInit ==
    /\ menu \in [Items -> {MenuRow(q, TRUE) : q \in FieldQtys}]
    /\ orders = <<>>
    /\ leftPending = {}
    /\ placed = NoPlaced
    /\ last = NoLast
    /\ proc = [p \in Procs |-> IdleProc]
    /\ begin = NoBegin
    /\ payCols = TRUE
    /\ users = <<>>
    /\ ledger = NoLedger

PayPlaceAct ==
    /\ Len(orders) < MaxOrders
    /\ \E u \in PlaceUsers, n \in PlaceNames,
          pm \in Opt(PlaceMethods), ps \in Opt(PlaceStatuses) :
          LET req == PlaceReqPay(u, n, FieldPlaced, pm, ps)
          IN Serve(req, PlaceOrder(menu, orders, req))

PayEditAct ==
    \E o \in OrderIds, u \in PlaceUsers, n \in EditNames :
          LET req == EditReq(o, u, <<n>>, <<>>, <<>>)
          IN Serve(req, UpdateOrder(menu, orders, req))

PayCancelAct ==
    \E o \in OrderIds, u \in PlaceUsers :
          LET req == CancelReq(o, u)
          IN Serve(req, DeleteOrder(menu, orders, req))

ProcessPaymentAct ==
    \E o \in {0} \cup OrderIds, method \in Opt(PayMethods),
       details_ok \in BOOLEAN, gw \in GcashAnswers :
          LET req == ProcessReq(o, method, details_ok, gw)
          IN Serve(req, ProcessPayment(menu, orders, req))

PaymentCallbackAct ==
    \E intent \in Opt(Intents), status \in Opt(WebhookStatuses) :
          LET req == CallbackReq(intent, status)
              found == IF Has(intent) THEN Matching(orders, Val(intent)) ELSE {}
          IN \E o \in IF found = {} THEN {0} ELSE found :
                Serve(req, PaymentCallback(menu, orders, req, o))

CheckPaymentStatusAct ==
    \E intent \in Intents, gw \in StatusAnswers :
          LET req == StatusReq(intent, gw)
          IN Serve(req, CheckPaymentStatus(menu, orders, req))

PayNext ==
    \/ PayPlaceAct
    \/ PayEditAct
    \/ PayCancelAct
    \/ ProcessPaymentAct
    \/ PaymentCallbackAct
    \/ CheckPaymentStatusAct
    \/ Respond

PaySpec == PayInit /\ [][PayNext]_vars

(* -------------------- UserSpec: accounts and orders -------------------- *)

UserInit ==
    /\ menu \in [Items -> {MenuRow(q, TRUE) : q \in FieldQtys}]
    /\ orders = <<>>
    /\ leftPending = {}
    /\ placed = NoPlaced
    /\ last = NoLast
    /\ proc = [p \in Procs |-> IdleProc]
    /\ begin = NoBegin
    /\ payCols = TRUE
    /\ users = <<>>
    /\ ledger = NoLedger

\* Apply an outcome that writes the users table as well.
UserServe(req, out) ==
    /\ Served(req, out)
    /\ users' = out.users
    /\ UNCHANGED ledger

RegisterAct ==
    /\ Len(users) < MaxUsers
    /\ \E email \in Emails, id_proof \in Opt({"id"}), selfie_proof \in Opt({"selfie"}) :
          LET req == RegisterReq(email, id_proof, selfie_proof)
          IN UserServe(req, Register(menu, orders, users, req))

\* An order of a registered user.
UserPlaceAct ==
    /\ Len(orders) < MaxOrders
    /\ \E u \in DOMAIN users, n \in PlaceNames :
          /\ users[u].present
          /\ LET req == PlaceReq(u, n, FieldPlaced)
             IN Serve(req, PlaceOrder(menu, orders, req))

ApproveUserAct ==
    \E user_id \in 1..MaxUsers, is_approved \in Opt(BOOLEAN), role \in Opt(Roles) :
          LET req == ApproveReq(user_id, is_approved, role)
          IN UserServe(req, ApproveUser(menu, orders, users, req))

ResetAllUsersAct ==
    UserServe(ResetReq, ResetAllUsers(menu, orders, users, ResetReq))

UserNext ==
    \/ RegisterAct
    \/ UserPlaceAct
    \/ ApproveUserAct
    \/ ResetAllUsersAct
    \/ Respond

UserSpec == UserInit /\ [][UserNext]_vars

(* ------------- RegSpec: registrations, statement by statement ---------- *)

\* The connections that are between the first SELECT and the INSERT of a
\* registration.
Registering == {p \in Procs : proc[p].pc \in {"count", "insert"}}

RegHistory ==
    UNCHANGED <<menu, orders, leftPending, placed, last, begin, payCols, ledger>>

\* register up to SELECT 1 FROM users WHERE email = %s. The users table is
\* created outside this code, so whether it lets two rows share an email is
\* not known: two registrations in flight have different emails.
RegStart(p) ==
    /\ proc[p].pc = "idle"
    /\ Len(users) + Cardinality(Registering) < MaxUsers
    /\ \E email \in Emails, id_proof \in Opt({"id"}), selfie_proof \in Opt({"selfie"}) :
          /\ \A q \in Registering : Val(proc[q].req.account.email) # email
          /\ LET req == RegisterReq(email, id_proof, selfie_proof)
             IN proc' = [proc EXCEPT
                   ![p] = IF EmailTaken(users, email)
                          THEN [@ EXCEPT !.pc = "done", !.req = req,
                                         !.res = "BadRequest"]
                          ELSE [@ EXCEPT !.pc = "count", !.req = req]]
    /\ UNCHANGED users
    /\ RegHistory

\* register: SELECT COUNT(*) FROM users, then the role and the proofs.
RegCount(p) ==
    /\ proc[p].pc = "count"
    /\ LET user_count == UserCount(users)
       IN proc' = [proc EXCEPT
             ![p] = IF user_count # 0 /\ ProofsMissing(@.req)
                    THEN [@ EXCEPT !.pc = "done", !.res = "BadRequest"]
                    ELSE [@ EXCEPT !.pc = "insert", !.cur = user_count]]
    /\ UNCHANGED users
    /\ RegHistory

\* register: INSERT INTO users and commit.
RegInsert(p) ==
    /\ proc[p].pc = "insert"
    /\ users' = Append(users, RegisteredRow(proc[p].req, proc[p].cur))
    /\ proc' = [proc EXCEPT ![p] = [@ EXCEPT !.pc = "done", !.res = "ok"]]
    /\ RegHistory

\* The response has been sent; the connection takes the next request.
RegReturn(p) ==
    /\ proc[p].pc = "done"
    /\ proc' = [proc EXCEPT ![p] = IdleProc]
    /\ UNCHANGED users
    /\ RegHistory

RegInit == UserInit

RegNext ==
    \E p \in Procs :
       \/ RegStart(p)
       \/ RegCount(p)
       \/ RegInsert(p)
       \/ RegReturn(p)

RegSpec == RegInit /\ [][RegNext]_vars

(* ------------------- ConcSpec: statement-level steps ------------------- *)

\* The SELECT / UPDATE pairs a loop over line items will run: one entry for
\* each line item with truthy id and qty > 0.
RECURSIVE Work(_, _)
Work(mode, its) ==
    IF its = <<>> THEN <<>>
    ELSE IF Effective(Head(its))
         THEN <<[mode |-> mode, id |-> Head(its).id, qty |-> Head(its).qty]>>
              \o Work(mode, Tail(its))
         ELSE Work(mode, Tail(its))

\* What a SELECT on connection p sees of menu item id: its own uncommitted
\* write, else the committed row.
Visible(p, id) ==
    IF Has(proc[p].wr[id]) THEN Val(proc[p].wr[id]) ELSE RowOf(menu, id)

\* Another connection holds the row lock of menu item id (it has updated the
\* row and not yet committed).
LockedByOther(p, id) == \E q \in Procs \ {p} : Has(proc[q].wr[id])

\* COMMIT of connection p: its menu_items writes become the committed rows.
Committed(p) ==
    [i \in Items |-> IF Has(proc[p].wr[i]) THEN Val(proc[p].wr[i]) ELSE menu[i]]

\* The request of connection p ends: conn.close() drops what is uncommitted.
Finish(p, res) ==
    [proc EXCEPT ![p].pc = "done", ![p].res = res, ![p].work = <<>>,
                 ![p].wr = [i \in Items |-> <<>>]]

AfterWork(w) == IF w = <<>> THEN "write" ELSE "select"

ConcHistory ==
    UNCHANGED <<leftPending, placed, last, begin, payCols, users, ledger>>

\* place_order is called: the loop over data["items"] starts.
PlaceStart(p) ==
    /\ proc[p].pc = "idle"
    /\ \E u \in PlaceUsers, n \in PlaceNames, its \in ConcPayloads :
          LET w == Work("deduct", its)
          IN proc' = [proc EXCEPT ![p].req = PlaceReq(u, n, its),
                                  ![p].work = w, ![p].pc = AfterWork(w)]
    /\ UNCHANGED <<menu, orders>>
    /\ ConcHistory

\* update_order is called: SELECT status, user_id, items and the checks.
EditGet(p) ==
    /\ proc[p].pc = "idle"
    /\ \E o \in OrderIds, its \in Opt(ConcPayloads), st \in Opt({"Preparing"}) :
          LET req == EditReq(o, NoUser, <<>>, its, st)
              started == [proc EXCEPT ![p].req = req]
          IN
          IF ~Exists(orders, o)
          THEN proc' = [Finish(p, "NotFound") EXCEPT ![p].req = req]
          ELSE
          LET order == orders[o]
              w == IF Has(its)
                   THEN Work("restore", order.items) \o Work("deduct", Val(its))
                   ELSE <<>>
          IN
          proc' =
            IF ~OwnerOk(order, req)
            THEN [Finish(p, "Forbidden") EXCEPT ![p].req = req]
            ELSE IF Details(req) /\ ~EditAllowed(order)
            THEN [Finish(p, "NotPending") EXCEPT ![p].req = req]
            ELSE IF Details(req) \/ Has(st)
            THEN [started EXCEPT ![p].work = w, ![p].pc = AfterWork(w)]
            ELSE [Finish(p, "NoFields") EXCEPT ![p].req = req]
    /\ UNCHANGED <<menu, orders>>
    /\ ConcHistory

\* delete_order is called: SELECT id, status, items, user_id and the checks.
CancelGet(p) ==
    /\ proc[p].pc = "idle"
    /\ \E o \in OrderIds :
          LET req == CancelReq(o, NoUser)
          IN
          proc' =
            IF ~Exists(orders, o)
            THEN [Finish(p, "NotFound") EXCEPT ![p].req = req]
            ELSE IF ~CancelAllowed(orders[o])
            THEN [Finish(p, "NotPending") EXCEPT ![p].req = req]
            ELSE IF ~OwnerOk(orders[o], req)
            THEN [Finish(p, "Forbidden") EXCEPT ![p].req = req]
            ELSE LET w == Work("restore", orders[o].items)
                 IN [proc EXCEPT ![p].req = req, ![p].work = w,
                                 ![p].pc = AfterWork(w)]
    /\ UNCHANGED <<menu, orders>>
    /\ ConcHistory

\* SELECT quantity FROM menu_items WHERE id = item_id; a line item whose row
\* is missing is skipped.
SelectQty(p) ==
    /\ proc[p].pc = "select"
    /\ LET item == Head(proc[p].work)
           row == Visible(p, item.id)
       IN proc' =
            IF row.present
            THEN [proc EXCEPT ![p].cur = row.quantity, ![p].pc = "update"]
            ELSE [proc EXCEPT ![p].work = Tail(@),
                              ![p].pc = AfterWork(Tail(proc[p].work))]
    /\ UNCHANGED <<menu, orders>>
    /\ ConcHistory

\* UPDATE menu_items SET quantity = new_qty (and is_available) WHERE id =
\* item_id, new_qty computed from the quantity read by the SELECT. The
\* statement waits while another connection holds the row lock.
UpdateQty(p) ==
    /\ proc[p].pc = "update"
    /\ LET item == Head(proc[p].work)
           row == Visible(p, item.id)
           cur == proc[p].cur
           new == IF item.mode = "deduct" THEN DeductedRow(row, cur, item.qty)
                  ELSE RestoredRow(row, cur, item.qty)
       IN /\ ~LockedByOther(p, item.id)
          /\ proc' = [proc EXCEPT
                ![p].wr[item.id] = IF row.present THEN <<new>> ELSE @,
                ![p].took[item.id] = @ + (cur - new.quantity),
                ![p].work = Tail(@),
                ![p].pc = AfterWork(Tail(proc[p].work))]
    /\ UNCHANGED <<menu, orders>>
    /\ ConcHistory

\* place_order: INSERT INTO orders and commit. The columns the handler looks
\* for exist, so that it issues no ALTER TABLE and commits once.
PlaceInsert(p) ==
    /\ proc[p].pc = "write"
    /\ proc[p].req.op = "place"
    /\ orders' = Append(orders, OrderRow(proc[p].req.user_id, Val(proc[p].req.fullname),
                                         Val(proc[p].req.items), "Pending"))
    /\ menu' = Committed(p)
    /\ proc' = Finish(p, "ok")
    /\ ConcHistory

\* update_order: UPDATE orders SET the supplied fields WHERE id = oid, and
\* commit. When the row is gone the UPDATE changes nothing; the status-only
\* UPDATE then answers 404.
EditWrite(p) ==
    /\ proc[p].pc = "write"
    /\ proc[p].req.op = "edit"
    /\ LET req == proc[p].req
       IN IF Exists(orders, req.oid)
          THEN /\ orders' = [orders EXCEPT ![req.oid] = UpdatedRow(@, req)]
               /\ proc' = Finish(p, "ok")
          ELSE /\ orders' = orders
               /\ proc' = Finish(p, IF Details(req) THEN "ok" ELSE "NotFound")
    /\ menu' = Committed(p)
    /\ ConcHistory

\* delete_order: DELETE FROM orders WHERE id = oid, and commit.
CancelDelete(p) ==
    /\ proc[p].pc = "write"
    /\ proc[p].req.op = "cancel"
    /\ orders' = IF Exists(orders, proc[p].req.oid)
                 THEN [orders EXCEPT ![proc[p].req.oid] = NoOrder]
                 ELSE orders
    /\ menu' = Committed(p)
    /\ proc' = Finish(p, "ok")
    /\ ConcHistory

\* The tables before the concurrent requests: stocked menu items and up to
\* MaxOrders Pending orders placed earlier.
ConcInit ==
    /\ menu \in [Items -> {MenuRow(q, TRUE) : q \in ConcQtys}]
    /\ \E n \in 0..MaxOrders :
          orders \in [1..n -> {OrderRow(u, nm, its, "Pending") :
                                 u \in PlaceUsers, nm \in PlaceNames,
                                 its \in ConcPayloads}]
    /\ leftPending = {}
    /\ placed = NoPlaced
    /\ last = NoLast
    /\ proc = [p \in Procs |-> IdleProc]
    /\ begin = [menu |-> menu, orders |-> orders]
    /\ payCols = TRUE
    /\ users = <<>>
    /\ ledger = NoLedger

ConcNext ==
    \E p \in Procs :
        \/ PlaceStart(p)
        \/ EditGet(p)
        \/ CancelGet(p)
        \/ SelectQty(p)
        \/ UpdateQty(p)
        \/ PlaceInsert(p)
        \/ EditWrite(p)
        \/ CancelDelete(p)

ConcSpec == ConcInit /\ [][ConcNext]_vars

(* ------ FaultSpec: failures, missing rows and orders of other clients --- *)

\* The tables before the requests: menu items in or out of stock, marked
\* available or not by the admin; no order, or one Pending order that another
\* client of the database has written; the payment columns present or not.
FaultInit ==
    /\ menu \in [Items -> {MenuRow(q, a) : q \in FaultQtys, a \in BOOLEAN}]
    /\ orders \in {<<>>} \cup
                  {<<OrderRow(u, n, its, "Pending")>> :
                      u \in PlaceUsers, n \in PlaceNames, its \in LegacyPayloads}
    /\ leftPending = {}
    /\ placed = NoPlaced
    /\ last = NoLast
    /\ proc = [p \in Procs |-> IdleProc]
    /\ begin = NoBegin
    /\ payCols \in BOOLEAN
    /\ users = <<>>
    /\ ledger = NoLedger

FaultPlaceAct ==
    /\ Len(orders) < MaxOrders
    /\ \E u \in PlaceUsers, n \in PlaceNames, its \in FaultPayloads,
          rejected \in BOOLEAN :
          LET req == IF rejected THEN PlaceReqRejected(u, n, its)
                     ELSE PlaceReq(u, n, its)
          IN Serve(req, PlaceOrder(menu, orders, req))

FaultEditAct ==
    \E o \in OrderIds, its \in Opt(FaultPayloads), st \in Opt({"Preparing"}) :
          LET req == EditReq(o, NoUser, <<>>, its, st)
          IN Serve(req, UpdateOrder(menu, orders, req))

FaultCancelAct ==
    \E o \in OrderIds :
          LET req == CancelReq(o, NoUser)
          IN Serve(req, DeleteOrder(menu, orders, req))

DeleteMenuItemAct ==
    \E i \in Items :
          LET req == MenuReq(i)
          IN Serve(req, DeleteMenuItem(menu, orders, req))

FaultNext ==
    \/ FaultPlaceAct
    \/ FaultEditAct
    \/ FaultCancelAct
    \/ DeleteMenuItemAct
    \/ Respond

FaultSpec == FaultInit /\ [][FaultNext]_vars

(* --------------- FieldSpec: edits of every subset of fields ------------- *)

FieldInit ==
    /\ menu \in [Items -> {MenuRow(q, TRUE) : q \in FieldQtys}]
    /\ orders = <<>>
    /\ leftPending = {}
    /\ placed = NoPlaced
    /\ last = NoLast
    /\ proc = [p \in Procs |-> IdleProc]
    /\ begin = NoBegin
    /\ payCols = TRUE
    /\ users = <<>>
    /\ ledger = NoLedger

FieldPlaceAct ==
    /\ Len(orders) < MaxOrders
    /\ \E u \in PlaceUsers, n \in PlaceNames :
          LET req == PlaceReq(u, n, FieldPlaced)
          IN Serve(req, PlaceOrder(menu, orders, req))

FieldEditAct ==
    \E o \in OrderIds, n \in Opt(EditNames), c \in Opt({"c2"}), l \in Opt({"l2"}),
       its \in Opt({FieldEdited}), t \in Opt({20}), st \in Opt({"Preparing"}) :
          LET req == EditReqAll(o, NoUser, n, c, l, its, t, st)
          IN Serve(req, UpdateOrder(menu, orders, req))

FieldNext ==
    \/ FieldPlaceAct
    \/ FieldEditAct
    \/ Respond

FieldSpec == FieldInit /\ [][FieldNext]_vars

(* ------------------------------- claims -------------------------------- *)

\* The line items of its that the handlers apply to menu item i.
Refs(its, i) == {k \in 1..Len(its) : its[k].id = i /\ its[k].qty > 0}

RECURSIVE SumQty(_, _)
SumQty(its, ks) ==
    IF ks = {} THEN 0
    ELSE LET k == CHOOSE x \in ks : TRUE IN its[k].qty + SumQty(its, ks \ {k})

\* The quantity the line items of its hold against menu item i.
Held(its, i) == SumQty(its, Refs(its, i))

\* The only line item of its applied to menu item i.
TheQty(its, i) == its[CHOOSE k \in Refs(its, i) : TRUE].qty

Placed == last.req.op = "place" /\ last.res = "ok"
Cancelled == last.req.op = "cancel" /\ last.res = "ok"
Edited == last.req.op = "edit" /\ last.res = "ok"
Target == last.orders[last.req.oid]
TargetExists == Exists(last.orders, last.req.oid)

\* ConcSpec: every connection has answered its request.
AllDone == \A p \in Procs : proc[p].pc = "done"

\* ConcSpec: connection p has served an accepted placeOrder with items its.
PlacedBy(p, its) ==
    /\ proc[p].pc = "done"
    /\ proc[p].req.op = "place"
    /\ proc[p].res = "ok"
    /\ Val(proc[p].req.items) = its

\* The quantity the orders inserted by the concurrent requests hold against
\* menu item i.
RECURSIVE HeldByNew(_, _)
HeldByNew(os, i) ==
    IF Len(os) <= Len(begin.orders) THEN 0
    ELSE Held(os[Len(os)].items, i) + HeldByNew(SubSeq(os, 1, Len(os) - 1), i)

\* The requests of the connections served one after the other, in the order
\* ps, starting from the tables st.
RECURSIVE RunSerial(_, _)
RunSerial(ps, st) ==
    IF ps = <<>> THEN st
    ELSE LET req == proc[Head(ps)].req
             out == CASE req.op = "place" -> PlaceOrder(st.menu, st.orders, req)
                      [] req.op = "edit" -> UpdateOrder(st.menu, st.orders, req)
                      [] req.op = "cancel" -> DeleteOrder(st.menu, st.orders, req)
         IN RunSerial(Tail(ps), [menu |-> out.menu, orders |-> out.orders])

\* The orders in which the connections can be served one after the other.
SerialOrders ==
    {ps \in [1..Cardinality(Procs) -> Procs] :
        \A a, b \in 1..Cardinality(Procs) : a # b => ps[a] # ps[b]}

\* C1: after a successful placeOrder every existing menu item referenced by
\* exactly one line item with truthy id and qty > 0 has quantity
\* max(0, pre_quantity - qty).
C1_PlaceDeducts ==
    Placed =>
        \A i \in Items :
            (last.menu[i].present /\ Cardinality(Refs(Val(last.req.items), i)) = 1)
            => menu[i].quantity =
                   Max(0, last.menu[i].quantity - TheQty(Val(last.req.items), i))

\* C1 witness: a placement whose single line item asks for more than the stock.
C1_Witness ==
    /\ Placed
    /\ \E i \in Items :
          /\ last.menu[i].present
          /\ Cardinality(Refs(Val(last.req.items), i)) = 1
          /\ TheQty(Val(last.req.items), i) > last.menu[i].quantity
          /\ last.menu[i].quantity > 0
          /\ menu[i].quantity = 0

\* C2: when two concurrent placeOrder requests, each with qty 6 for the same
\* menu item whose quantity is 10, have been served, the final quantity is
\* >= 0, the two requests have not both deducted 6, and the quantities the
\* two accepted orders hold against the item sum to at most 10.
C2_NoOversell ==
    ( /\ begin.menu # NoMenu
      /\ begin.menu[1].quantity = 10
      /\ \A p \in Procs : PlacedBy(p, <<L(1, 6)>>) )
    => /\ menu[1].quantity >= 0
       /\ ~(\A p \in Procs : proc[p].took[1] = 6)
       /\ HeldByNew(orders, 1) <= 10

\* C3: placeOrder followed immediately by cancelOrder returns every menu
\* item's quantity to its value before the placement (the cancellation gives
\* back what the placement actually deducted).
C3_CancelRestoresDeducted ==
    (Cancelled /\ last.placed.oid = last.req.oid)
    => \A i \in Items : menu[i].quantity = last.placed.menu[i].quantity

\* C4 as stated: an order whose status has once been non-Pending is never
\* cancelled, and never edited in its details, with success.
C4_NeverAgain ==
    ((Cancelled \/ (Edited /\ Details(last.req))) /\ TargetExists)
    => last.req.oid \notin last.left

\* C4 as amended: a cancellation or a details edit succeeds only on an order
\* whose status is Pending at that time, and a request on an order whose
\* status is not Pending changes no menu item.
C4_OnlyWhilePending ==
    /\ ((Cancelled \/ (Edited /\ Details(last.req))) /\ TargetExists)
       => Target.status = "Pending"
    /\ (last.req.op \in {"edit", "cancel"} /\ TargetExists
        /\ Target.status # "Pending")
       => menu = last.menu

\* C4 witness: an order that had left Pending and was set back to Pending by
\* a status edit is cancelled.
C4_Witness ==
    /\ Cancelled
    /\ last.req.oid \in last.left
    /\ Target.status = "Pending"
    /\ ~Exists(orders, last.req.oid)

\* C5: under every interleaving of placeOrder, editOrder and cancelOrder
\* requests started from quantities >= 0, the quantity of every menu item,
\* committed or written and not yet committed, is >= 0.
C5_QuantityNeverNegative ==
    /\ \A i \in Items : menu[i].present => menu[i].quantity >= 0
    /\ \A p \in Procs : \A i \in Items :
          Has(proc[p].wr[i]) => Val(proc[p].wr[i]).quantity >= 0

\* C5 witness: both connections have deducted from an item that was in
\* stock, and the item is left with quantity 0.
C5_Witness ==
    /\ AllDone
    /\ \E i \in Items :
          /\ begin.menu[i].quantity > 0
          /\ menu[i].quantity = 0
          /\ \A p \in Procs : proc[p].req.op = "place" /\ proc[p].took[i] > 0

\* C6: when the concurrent requests have been served, the menu_items
\* quantities and the orders rows are those that serving the same requests
\* one after the other, in some order, produces.
C6_Serializable ==
    AllDone =>
        \E ps \in SerialOrders :
            LET st == RunSerial(ps, begin)
            IN /\ \A i \in Items : menu[i].quantity = st.menu[i].quantity
               /\ orders = st.orders

\* C7: cancelOrder on an existing Pending order, the ownership check passing,
\* adds to every existing menu item the qty of the stored line items that
\* reference it and deletes the order row; a later request on the id of a
\* deleted order fails with NotFound.
C7_CancelRestoresAndDeletes ==
    /\ (last.req.op = "cancel" /\ TargetExists /\ Target.status = "Pending"
        /\ (last.req.user_id = NoUser \/ last.req.user_id = Target.user_id))
       => /\ last.res = "ok"
          /\ \A i \in Items :
                IF last.menu[i].present
                THEN menu[i] = [last.menu[i] EXCEPT
                        !.quantity = @ + Held(Target.items, i),
                        !.is_available =
                            IF last.menu[i].quantity = 0 /\ Held(Target.items, i) > 0
                            THEN TRUE ELSE @]
                ELSE menu[i] = last.menu[i]
          /\ ~Exists(orders, last.req.oid)
          /\ \A o \in DOMAIN orders : o # last.req.oid => orders[o] = last.orders[o]
    /\ (last.req.op \in {"cancel", "edit"} /\ last.req.oid \in DOMAIN last.orders
        /\ ~last.orders[last.req.oid].present)
       => (last.res = "NotFound" /\ menu = last.menu /\ orders = last.orders)

\* C7 witness: the cancellation of an order that holds stock of an item.
C7_Witness ==
    /\ Cancelled
    /\ \E i \in Items :
          /\ last.menu[i].present
          /\ Held(Target.items, i) > 0
          /\ menu[i].quantity = last.menu[i].quantity + Held(Target.items, i)

\* C8 as stated: cancelOrder, and editOrder carrying order details, on an
\* order that is not Pending fail with NotPending and change no row.
C8_NotPendingAlways ==
    ((last.req.op = "cancel" \/ (last.req.op = "edit" /\ Details(last.req)))
     /\ TargetExists /\ Target.status # "Pending")
    => (last.res = "NotPending" /\ menu = last.menu /\ orders = last.orders)

\* C8 as amended: on an order that is not Pending, cancelOrder fails with
\* NotPending; editOrder carrying order details fails with NotPending when
\* its user_id is absent or the owner's, and with Forbidden otherwise; no
\* row changes, whatever status the edit supplies.
C8_NotPendingOrForbidden ==
    ((last.req.op = "cancel" \/ (last.req.op = "edit" /\ Details(last.req)))
     /\ TargetExists /\ Target.status # "Pending")
    => /\ last.res =
             IF last.req.op = "edit" /\ last.req.user_id # NoUser
                /\ last.req.user_id # Target.user_id
             THEN "Forbidden" ELSE "NotPending"
       /\ menu = last.menu
       /\ orders = last.orders

\* C8 witness: an edit of the items and the status of an order that is not
\* Pending is refused.
C8_Witness ==
    /\ last.req.op = "edit"
    /\ Has(last.req.items) /\ Has(last.req.status)
    /\ Val(last.req.items) # <<>>
    /\ TargetExists /\ Target.status # "Pending"
    /\ Val(last.req.status) # Target.status
    /\ last.res = "NotPending"

\* C9: editOrder on a Pending order with the items it already stores leaves
\* the quantity of every menu item unchanged.
C9_SameItemsNoChange ==
    (Edited /\ Has(last.req.items) /\ Val(last.req.items) = Target.items)
    => \A i \in Items : menu[i].quantity = last.menu[i].quantity

\* C9 witness: the same items, two of them on one menu item, are resubmitted
\* while that item is out of stock.
C9_Witness ==
    /\ Edited /\ Has(last.req.items) /\ Val(last.req.items) = Target.items
    /\ \E i \in Items :
          /\ last.menu[i].present
          /\ Cardinality(Refs(Target.items, i)) > 1
          /\ last.menu[i].quantity = 0
          /\ menu[i].quantity = 0

\* C10: in editOrder with items, for an existing menu item referenced once
\* in the old items (qty a) and once in the new items (qty b) the quantity
\* becomes max(0, pre + a - b); referenced once in the old items only,
\* pre + a; referenced once in the new items only, max(0, pre - b).
C10_RestoreThenDeduct ==
    (Edited /\ Has(last.req.items))
    => \A i \in Items :
          LET old == Target.items
              new == Val(last.req.items)
              nOld == Cardinality(Refs(old, i))
              nNew == Cardinality(Refs(new, i))
              pre == last.menu[i].quantity
          IN last.menu[i].present =>
               /\ (nOld = 1 /\ nNew = 1)
                  => menu[i].quantity = Max(0, pre + TheQty(old, i) - TheQty(new, i))
               /\ (nOld = 1 /\ nNew = 0) => menu[i].quantity = pre + TheQty(old, i)
               /\ (nOld = 0 /\ nNew = 1)
                  => menu[i].quantity = Max(0, pre - TheQty(new, i))

\* C10 witness: an edit that replaces a line item by a larger one the stock
\* covers only because the old one is restored first.
C10_Witness ==
    /\ Edited /\ Has(last.req.items)
    /\ \E i \in Items :
          /\ last.menu[i].present
          /\ Cardinality(Refs(Target.items, i)) = 1
          /\ Cardinality(Refs(Val(last.req.items), i)) = 1
          /\ TheQty(Val(last.req.items), i) > last.menu[i].quantity
          /\ TheQty(Val(last.req.items), i) > TheQty(Target.items, i)
          /\ menu[i].quantity =
               last.menu[i].quantity + TheQty(Target.items, i)
                   - TheQty(Val(last.req.items), i)

\* The request carries one of fullname, contact, location, items and total.
AnyDetail ==
    \E f \in {"fullname", "contact", "location", "items", "total"} :
        last.req[f] # <<>>

\* The request carries no user_id or the stored user_id of its order.
Owned == last.req.user_id = NoUser \/ last.req.user_id = Target.user_id

\* An editOrder on an existing order whose only field among fullname,
\* contact, location, items, total and status is status.
StatusOnly ==
    /\ last.req.op = "edit"
    /\ TargetExists
    /\ ~AnyDetail
    /\ last.req.status # <<>>

\* The request has succeeded and has changed the status of its order to the
\* supplied value and nothing else.
StatusSet ==
    /\ last.res = "ok"
    /\ menu = last.menu
    /\ orders = [last.orders EXCEPT ![last.req.oid].status = Val(last.req.status)]

\* The request names a user_id that is not the stored user_id of its order.
Foreign ==
    /\ last.req.op \in {"edit", "cancel"}
    /\ TargetExists
    /\ last.req.user_id # NoUser
    /\ last.req.user_id # Target.user_id

Untouched == menu = last.menu /\ orders = last.orders

\* C11 as stated: a status-only editOrder succeeds on an order in any status,
\* sets the status to the supplied value and changes no menu_items row and no
\* other order field.
C11_StatusOnlyAlways == StatusOnly => StatusSet

\* C11 as amended: a status-only editOrder whose ownership check passes
\* (user_id omitted or equal to the order's) succeeds on an order in any
\* status, sets the status to the supplied value and changes no menu_items
\* row and no other order field.
C11_StatusOnlyOwned == (StatusOnly /\ Owned) => StatusSet

\* C11 witness: the status of an order that is not Pending and stores line
\* items has been set by a status-only edit.
C11_Witness ==
    /\ StatusOnly
    /\ Target.status # "Pending"
    /\ Target.items # <<>>
    /\ last.res = "ok"

\* C14 as stated: cancelOrder or editOrder with a user_id that differs from
\* the order's fails with Forbidden and changes nothing; a request without
\* user_id never fails with Forbidden.
C14_ForbiddenAlways ==
    /\ Foreign => (last.res = "Forbidden" /\ Untouched)
    /\ last.req.user_id = NoUser => last.res # "Forbidden"

\* C14 as amended: editOrder with a user_id that differs from the order's
\* fails with Forbidden; cancelOrder with such a user_id fails with Forbidden
\* on a Pending order and with NotPending on any other; in both cases nothing
\* changes; a request without user_id never fails with Forbidden.
C14_ForbiddenOrNotPending ==
    /\ Foreign =>
          /\ last.res = IF last.req.op = "cancel" /\ Target.status # "Pending"
                        THEN "NotPending" ELSE "Forbidden"
          /\ Untouched
    /\ last.req.user_id = NoUser => last.res # "Forbidden"

\* C14 witness: the cancellation of a Pending order that holds stock has been
\* refused to a user who does not own it.
C14_Witness ==
    /\ Foreign
    /\ last.req.op = "cancel"
    /\ Target.status = "Pending"
    /\ \E i \in Items : Held(Target.items, i) > 0
    /\ last.res = "Forbidden"

\* C20: editOrder on an existing order with none of fullname, contact,
\* location, items, total and status, the ownership check passing, fails with
\* NoFields and changes neither the orders nor the menu_items.
C20_NoFields ==
    ( /\ last.req.op = "edit"
      /\ TargetExists
      /\ ~AnyDetail
      /\ last.req.status = <<>>
      /\ Owned )
    => (last.res = "NoFields" /\ Untouched)

\* C20 witness: the owner of a Pending order has sent an edit without fields.
C20_Witness ==
    /\ last.req.op = "edit"
    /\ TargetExists
    /\ last.req.user_id = Target.user_id
    /\ Target.status = "Pending"
    /\ ~AnyDetail
    /\ last.req.status = <<>>
    /\ last.res = "NoFields"

\* Every element of its is a line item whose id is absent, falsy or an
\* integer id of the menu.
Plain(its) == \A k \in 1..Len(its) : its[k].id \in Items \cup {NoId}

\* The quantity of menu item i after the line items its have been deducted
\* from the rows before the request, at most one of them naming i.
Decremented(its, i) ==
    IF last.menu[i].present /\ Refs(its, i) # {}
    THEN Max(0, last.menu[i].quantity - TheQty(its, i))
    ELSE last.menu[i].quantity

\* A placeOrder whose stock loop has ended without failure and whose INSERT
\* the database rejects.
InsertRejected ==
    /\ last.req.op = "place"
    /\ last.req.insert_fails
    /\ \A k \in 1..Len(Val(last.req.items)) :
          Val(last.req.items)[k].id \notin {BadId, Junk}

\* C12 as stated: when the INSERT of placeOrder fails after the stock loop,
\* the request fails, no order row is added and the menu_items quantities
\* stay at their decremented values.
C12_DeductionsStay ==
    InsertRejected =>
        /\ last.res = "StorageFailure"
        /\ orders = last.orders
        /\ \A i \in Items : menu[i].quantity = Decremented(Val(last.req.items), i)

\* C12 as amended: when the INSERT of placeOrder fails after the stock loop,
\* the request fails and no order row is added; every menu_items row is as
\* before the request, unless the request has added a missing payment column
\* to the orders table, whose commit keeps the decremented quantities.
C12_DeductionsDiscarded ==
    InsertRejected =>
        /\ last.res = "StorageFailure"
        /\ orders = last.orders
        /\ IF last.cols THEN menu = last.menu
           ELSE \A i \in Items :
                   menu[i].quantity = Decremented(Val(last.req.items), i)

\* C12 witness: the INSERT has failed after a deduction that took stock, and
\* the stock is back.
C12_Witness ==
    /\ InsertRejected
    /\ last.cols
    /\ \E i \in Items :
          /\ Decremented(Val(last.req.items), i) < last.menu[i].quantity
          /\ menu[i].quantity = last.menu[i].quantity

\* C13: when the stock adjustment of one line item of placeOrder fails, the
\* other line items are deducted, the order row is inserted and the request
\* succeeds.
C13_StockFailureSwallowed ==
    ( /\ last.req.op = "place"
      /\ ~last.req.insert_fails
      /\ \A k \in 1..Len(Val(last.req.items)) : Val(last.req.items)[k].id # Junk
      /\ \E k \in 1..Len(Val(last.req.items)) :
            /\ Val(last.req.items)[k].id \in {BadId, DictId}
            /\ Val(last.req.items)[k].qty > 0 )
    => /\ last.res = "ok"
       /\ Len(orders) = Len(last.orders) + 1
       /\ orders[Len(orders)].items = Val(last.req.items)
       /\ \A i \in Items : menu[i].quantity = Decremented(Val(last.req.items), i)

\* A menu item without row that a line item of its names.
Dangling(its) ==
    \E i \in Items : ~last.menu[i].present /\ Refs(its, i) # {}

\* C15: a placeOrder with a line item whose id matches no menu_items row
\* succeeds; no row is created or changed for that line item, the other line
\* items are deducted, and the order is created with the submitted items.
C15_PlaceSkipsDangling ==
    ( /\ last.req.op = "place"
      /\ ~last.req.insert_fails
      /\ Plain(Val(last.req.items))
      /\ Dangling(Val(last.req.items)) )
    => /\ last.res = "ok"
       /\ Len(orders) = Len(last.orders) + 1
       /\ orders[Len(orders)].items = Val(last.req.items)
       /\ \A i \in Items :
             /\ ~last.menu[i].present => menu[i] = last.menu[i]
             /\ menu[i].quantity = Decremented(Val(last.req.items), i)

\* C15 witness: an order has been placed with a line item on a deleted menu
\* item and a line item that has taken stock.
C15_Witness ==
    /\ Placed
    /\ Dangling(Val(last.req.items))
    /\ \E i \in Items : menu[i].quantity < last.menu[i].quantity

\* The quantity of menu item i after the line items old have been restored
\* and the line items new deducted, at most one of each naming i.
Adjusted(old, new, i) ==
    LET restored == IF Refs(old, i) # {}
                    THEN last.menu[i].quantity + TheQty(old, i)
                    ELSE last.menu[i].quantity
    IN IF ~last.menu[i].present THEN last.menu[i].quantity
       ELSE IF Refs(new, i) # {} THEN Max(0, restored - TheQty(new, i))
       ELSE restored

\* C16: cancelOrder and an items edit on a Pending order with a line item on
\* a deleted menu item succeed; no row is created for that line item, the
\* other line items are restored (and the new ones deducted), and the order
\* is deleted (or updated).
C16_DanglingTolerated ==
    ( /\ last.req.op \in {"cancel", "edit"}
      /\ TargetExists
      /\ Target.status = "Pending"
      /\ Owned
      /\ Plain(Target.items)
      /\ Dangling(Target.items)
      /\ last.req.op = "edit" =>
            (last.req.items # <<>> /\ Plain(Val(last.req.items))) )
    => /\ last.res = "ok"
       /\ \A i \in Items : ~last.menu[i].present => menu[i] = last.menu[i]
       /\ IF last.req.op = "cancel"
          THEN /\ ~orders[last.req.oid].present
               /\ \A i \in Items :
                     menu[i].quantity = Adjusted(Target.items, <<>>, i)
          ELSE /\ orders[last.req.oid].items = Val(last.req.items)
               /\ \A i \in Items :
                     menu[i].quantity =
                         Adjusted(Target.items, Val(last.req.items), i)

\* C16 witness: an order with a line item on a deleted menu item and a line
\* item on an existing one has been cancelled, and the stock is restored.
C16_Witness ==
    /\ Cancelled
    /\ Plain(Target.items)
    /\ Dangling(Target.items)
    /\ \E i \in Items : menu[i].quantity > last.menu[i].quantity

\* is_available of menu item i after a restoration from the quantity q.
AvailRestored(i, q) == IF q = 0 THEN TRUE ELSE last.menu[i].is_available

\* C17: after a successful placeOrder, cancelOrder or items edit, for every
\* menu item named by at most one line item restored and at most one line
\* item deducted: a deduction that leaves the quantity at 0 has set
\* is_available to false, a restoration from quantity 0 has set it to true,
\* and otherwise is_available is as before.
C17_Availability ==
    \A i \in Items :
        /\ (Placed /\ Plain(Val(last.req.items)) /\ last.menu[i].present)
           => menu[i].is_available =
                IF Refs(Val(last.req.items), i) # {} /\ menu[i].quantity = 0
                THEN FALSE ELSE last.menu[i].is_available
        /\ (Cancelled /\ Plain(Target.items) /\ last.menu[i].present)
           => menu[i].is_available =
                IF Refs(Target.items, i) # {}
                THEN AvailRestored(i, last.menu[i].quantity)
                ELSE last.menu[i].is_available
        /\ ( /\ Edited /\ last.req.items # <<>>
             /\ Plain(Target.items) /\ Plain(Val(last.req.items))
             /\ last.menu[i].present )
           => menu[i].is_available =
                LET restored == IF Refs(Target.items, i) # {}
                                THEN AvailRestored(i, last.menu[i].quantity)
                                ELSE last.menu[i].is_available
                IN IF Refs(Val(last.req.items), i) # {} /\ menu[i].quantity = 0
                   THEN FALSE ELSE restored

\* C17 witness: a cancellation has restored an item that was marked
\* unavailable while in stock, and the item is still marked unavailable.
C17_Witness ==
    /\ Cancelled
    /\ Plain(Target.items)
    /\ \E i \in Items :
          /\ Refs(Target.items, i) # {}
          /\ last.menu[i].present
          /\ last.menu[i].quantity > 0
          /\ ~last.menu[i].is_available
          /\ menu[i].quantity > last.menu[i].quantity
          /\ ~menu[i].is_available

\* The position of the first element of its that is no line item.
FirstJunk(its) ==
    CHOOSE k \in 1..Len(its) :
        its[k].id = Junk /\ \A j \in 1..(k - 1) : its[j].id # Junk

\* A cancelOrder, the ownership check passing, on a Pending order whose
\* stored items cannot be read as a list of line items.
CancelUnreadable ==
    /\ last.req.op = "cancel"
    /\ TargetExists
    /\ Target.status = "Pending"
    /\ Owned
    /\ \E k \in 1..Len(Target.items) : Target.items[k].id = Junk

C19_PartialUpdate ==
    (Edited /\ TargetExists) =>
        /\ \A f \in {"fullname", "contact", "location", "items", "total", "status"} :
              orders[last.req.oid][f] =
                  IF last.req[f] # <<>> THEN last.req[f][1] ELSE Target[f]
        /\ \A f \in {"present", "user_id", "payment_method", "payment_status"} :
              orders[last.req.oid][f] = Target[f]
        /\ \A o \in DOMAIN orders : o # last.req.oid => orders[o] = last.orders[o]
        /\ DOMAIN orders = DOMAIN last.orders

\* C19 witness: an edit that carries contact and total, and neither fullname
\* nor items nor status, has succeeded.
C19_Witness ==
    /\ Edited
    /\ last.req.contact # <<>> /\ last.req.total # <<>>
    /\ last.req.fullname = <<>> /\ last.req.items = <<>> /\ last.req.status = <<>>
    /\ orders[last.req.oid].contact # Target.contact
    /\ orders[last.req.oid].fullname = Target.fullname


(* ------------------------ payment fields on placement ------------------ *)

\* The order the last request inserted.
NewOrder == orders[Len(orders)]

FirstRef(its, i) == CHOOSE k \in Refs(its, i) : \A x \in Refs(its, i) : k <= x
SecondRef(its, i) == CHOOSE k \in Refs(its, i) : \A x \in Refs(its, i) : k >= x

\* C22: when two line items of one request apply to the same menu item, with
\* qtys q1 then q2, a successful placeOrder leaves the item at
\* max(0, max(0, pre - q1) - q2), and a successful cancelOrder of such an
\* order leaves it at pre + q1 + q2.
C22_EachLineItemApplied ==
    /\ Placed =>
          \A i \in Items :
             LET its == Val(last.req.items)
             IN (last.menu[i].present /\ Cardinality(Refs(its, i)) = 2) =>
                   menu[i].quantity =
                      Max(0, Max(0, last.menu[i].quantity - its[FirstRef(its, i)].qty)
                                - its[SecondRef(its, i)].qty)
    /\ Cancelled =>
          \A i \in Items :
             LET its == Target.items
             IN (last.menu[i].present /\ Cardinality(Refs(its, i)) = 2) =>
                   menu[i].quantity =
                      last.menu[i].quantity + its[FirstRef(its, i)].qty
                                            + its[SecondRef(its, i)].qty

C22_Witness ==
    /\ Cancelled
    /\ \E i \in Items :
          /\ Cardinality(Refs(Target.items, i)) = 2
          /\ last.menu[i].quantity = 0
          /\ menu[i].quantity = 3

(* -------------------------- skipped line items ------------------------- *)

\* A line item with qty <= 0 or a falsy id.
Skipped(item) == item.qty <= 0 \/ item.id = NoId
HasSkipped(its) == \E k \in 1..Len(its) : Skipped(its[k])

\* C23: a placeOrder whose items contain a line item with qty <= 0 or a falsy
\* id succeeds, stores the items as given and changes each menu item by the
\* other line items only; an editOrder and a cancelOrder restore and deduct
\* by the other line items only as well.
C23_SkippedLineItems ==
    /\ (last.req.op = "place" /\ HasSkipped(Val(last.req.items))) =>
          /\ last.res = "ok"
          /\ NewOrder.items = Val(last.req.items)
          /\ \A i \in Items :
                menu[i].quantity =
                   Max(0, last.menu[i].quantity - Held(Val(last.req.items), i))
    /\ (Cancelled /\ HasSkipped(Target.items)) =>
          \A i \in Items :
             menu[i].quantity = last.menu[i].quantity + Held(Target.items, i)
    /\ (/\ Edited
        /\ last.req.items # <<>>
        /\ HasSkipped(Target.items) \/ HasSkipped(Val(last.req.items))) =>
          /\ orders[last.req.oid].items = Val(last.req.items)
          /\ \A i \in Items :
                menu[i].quantity =
                   Max(0, last.menu[i].quantity + Held(Target.items, i)
                             - Held(Val(last.req.items), i))

C23_Witness ==
    /\ Edited
    /\ last.req.items # <<>>
    /\ HasSkipped(Target.items)
    /\ HasSkipped(Val(last.req.items))
    /\ Target.items # Val(last.req.items)
    /\ \E i \in Items : menu[i].quantity # last.menu[i].quantity

(* ------------------------ payment status values ------------------------ *)

\* C24: the payment_status of every order is pending, paid or failed.
C24_PaymentStatusDomain ==
    \A o \in DOMAIN orders :
       orders[o].present =>
          orders[o].payment_status \in {"pending", "paid", "failed"}

(* --------------------------- stock conservation ------------------------ *)

\* The line items of its that name menu item i, whatever their qty.
AllRefs(its, i) == {k \in 1..Len(its) : its[k].id = i}

\* The sum of qty over all the line items of the orders os that name item i.
RECURSIVE Referenced(_, _)
Referenced(os, i) ==
    IF os = <<>> THEN 0
    ELSE (IF os[Len(os)].present
          THEN SumQty(os[Len(os)].items, AllRefs(os[Len(os)].items, i))
          ELSE 0) + Referenced(SubSeq(os, 1, Len(os) - 1), i)

\* The same sum over the line items with qty > 0.
RECURSIVE HeldByOrders(_, _)
HeldByOrders(os, i) ==
    IF os = <<>> THEN 0
    ELSE (IF os[Len(os)].present THEN Held(os[Len(os)].items, i) ELSE 0)
         + HeldByOrders(SubSeq(os, 1, Len(os) - 1), i)

\* C25 as stated: while no deduction has been clamped, the quantity of each
\* menu item plus the sum of qty over all the line items of the existing
\* orders that name it is the quantity the item started with.
C25_AllLineItems ==
    ~ledger.clamped =>
       \A i \in Items :
          menu[i].quantity + Referenced(orders, i) = ledger.menu[i].quantity

\* C25, amended: while no deduction has been clamped, the quantity of each
\* menu item plus the sum of qty over the line items with qty > 0 of the
\* existing orders that name it is the quantity the item started with.
C25_StockConserved ==
    ~ledger.clamped =>
       \A i \in Items :
          menu[i].quantity + HeldByOrders(orders, i) = ledger.menu[i].quantity

C25_Witness ==
    /\ ~ledger.clamped
    /\ Edited
    /\ last.req.items # <<>>
    /\ Target.status = "Pending"
    /\ \E i \in Items :
          /\ menu[i].quantity < last.menu[i].quantity
          /\ menu[i].quantity < ledger.menu[i].quantity
    /\ \E i \in Items : menu[i].quantity > last.menu[i].quantity

(* ---------------- concurrent cancellations of one order ---------------- *)

\* ConcSpec: the two connections have served requests on the same order,
\* Pending at the start: two cancelOrder, or a cancelOrder and an editOrder
\* with items.
SameOrderCancelled(o) ==
    /\ AllDone
    /\ Exists(begin.orders, o)
    /\ \A p \in Procs : proc[p].req.oid = o
    /\ \E p \in Procs : proc[p].req.op = "cancel"
    /\ \A p \in Procs :
          \/ proc[p].req.op = "cancel"
          \/ proc[p].req.op = "edit" /\ proc[p].req.items # <<>>

\* C26: after two concurrent cancelOrder requests for one Pending order, or
\* a cancelOrder concurrent with an editOrder that changes its items, no
\* menu item holds more than its quantity at the start plus, once, the qty
\* of the order's line items on it.
C26_RestoredOnce ==
    \A o \in DOMAIN begin.orders :
       SameOrderCancelled(o) =>
          \A i \in Items :
             menu[i].quantity <=
                begin.menu[i].quantity + Held(begin.orders[o].items, i)

(* --------------------- order of the checks, no change ------------------ *)

\* C29: on a non-Pending order of another user cancelOrder answers
\* NotPending and editOrder with detail fields answers Forbidden; on an
\* order that does not exist both answer NotFound; no row changes.
C29_CheckOrder ==
    /\ (last.req.op \in {"edit", "cancel"} /\ last.res # "none" /\ ~TargetExists) =>
          last.res = "NotFound" /\ Untouched
    /\ (Foreign /\ Target.status # "Pending" /\ last.req.op = "cancel") =>
          last.res = "NotPending" /\ Untouched
    /\ (Foreign /\ Target.status # "Pending" /\ last.req.op = "edit" /\ AnyDetail) =>
          last.res = "Forbidden" /\ Untouched

C29_Witness ==
    /\ Foreign
    /\ Target.status # "Pending"
    /\ last.req.op = "cancel"
    /\ last.res = "NotPending"

(* ----------------------------- paid is final --------------------------- *)

\* C30: an order whose payment_status is paid is still paid after a
\* process_payment, payment_callback or check_payment_status request.
C30_PaidStays ==
    last.req.op \in {"process_payment", "payment_callback",
                     "check_payment_status"} =>
       \A o \in DOMAIN last.orders :
          (last.orders[o].present /\ last.orders[o].payment_status = "paid") =>
             orders[o].payment_status = "paid"

(* ----------------------- rejected users and reset ---------------------- *)

\* The order rows of the user with the given id in the orders os.
OrdersOf(os, user_id) ==
    {o \in DOMAIN os : os[o].present /\ os[o].user_id = user_id}

\* C27: a successful approve_user with is_approved = false deletes the user
\* and the orders whose user_id is that user, leaves the other users and
\* orders as they are and changes no menu_items row; a reset_all_users
\* deletes every order and every user and changes no menu_items row.
C27_RejectDeletes ==
    /\ (/\ last.req.op = "approve_user"
        /\ last.res = "ok"
        /\ last.req.account.is_approved = <<FALSE>>) =>
          /\ ~users[last.req.user_id].present
          /\ \A u \in DOMAIN users :
                u # last.req.user_id => users[u] = last.users[u]
          /\ \A o \in DOMAIN orders :
                IF o \in OrdersOf(last.orders, last.req.user_id)
                THEN ~orders[o].present
                ELSE orders[o] = last.orders[o]
          /\ menu = last.menu
    /\ last.req.op = "reset_all_users" =>
          /\ last.res = "ok"
          /\ \A u \in DOMAIN users : ~users[u].present
          /\ \A o \in DOMAIN orders : ~orders[o].present
          /\ menu = last.menu

C27_Witness ==
    /\ last.req.op = "approve_user"
    /\ last.res = "ok"
    /\ last.req.account.is_approved = <<FALSE>>
    /\ \E o \in OrdersOf(last.orders, last.req.user_id) :
          /\ last.orders[o].status = "Pending"
          /\ Held(last.orders[o].items, 1) > 0
          /\ menu[1].quantity = last.menu[1].quantity

(* ----------------------------- the first user -------------------------- *)

\* The accounts with role admin.
Admins == {u \in DOMAIN users : users[u].present /\ users[u].role = "admin"}

\* C28: once an account exists exactly one account has role admin, and it
\* is approved; every other account has role user, is not approved and has
\* both an id_proof and a selfie_proof.
C28_OneAdmin ==
    users # <<>> =>
       /\ Cardinality(Admins) = 1
       /\ \A u \in DOMAIN users :
             IF u \in Admins THEN users[u].is_approved
             ELSE /\ users[u].role = "user"
                  /\ ~users[u].is_approved
                  /\ users[u].id_proof # <<>>
                  /\ users[u].selfie_proof # <<>>

=============================================================================
